---- MODULE Spec2Model ----
(***************************************************************************)
(* Model of react/Reviews.tsx: the Reviews component's view state (the     *)
(* useReducer state), its reducer, the two data-fetch effects and the      *)
(* user events the rendered tree can dispatch.                             *)
(*                                                                         *)
(* A nullable value (Review[] | null) is encoded as a sequence of length   *)
(* 0 (null) or 1 (the value): Null == <<>>, Arr(p) == <<p>>.               *)
(* A Review is represented by its id; a page is a sequence of ids.         *)
(***************************************************************************)
EXTENDS Integers, Sequences, FiniteSets, Bags, TLC

VARIABLES
  productId,   \* product identity read from ProductContext ("" when absent)
  state,       \* the useReducer state (interface State)
  inflight,    \* bag of client.query promises not yet settled
  last,        \* history: the step taken last (kind, dispatched action, request
               \* answered; for a list response that directly follows another
               \* list response, the request that one answered)
  issued,      \* history: the requests issued by the effects after the last step
  roundTrip,   \* history: the state before a SET_PREV_PAGE, kept while the
               \* next step is SET_NEXT_PAGE (Null otherwise)
  changes,     \* history: how many times the product context has changed
  entry        \* one "Submitted ..." item of a review entry: the timestamp
               \* string, the clock read by getTimeAgo and the label shown

viewVars == <<productId, state, inflight, last, issued, roundTrip, changes>>

vars == <<productId, state, inflight, last, issued, roundTrip, changes, entry>>

----------------------------------------------------------------------------
(* Bounds of the model *)

MaxPage == 1           \* next page is not explored beyond offset MaxPage * limit
MaxListInFlight == 2   \* number of unsettled list requests explored
MaxContextChanges == 1 \* number of product context changes explored
MaxTotal == 1          \* totals returned by the server: 0..MaxTotal
MaxAverage == 1        \* averages returned by the server: 0..MaxAverage
MaxShortPage == 1      \* lengths of the partial pages returned: 1..MaxShortPage
MaxSortOption == 2     \* the shopper picks among the first MaxSortOption options
MaxYearsBack == 2      \* review timestamps go back MaxYearsBack years before 2020

----------------------------------------------------------------------------
(* Values *)

NoProduct == ""
Products == {"P1", "P2"}

Null == <<>>
Arr(p) == <<p>>

options ==
  << [label |-> "Most Recent",   value |-> "ReviewDateTime:desc"],
     [label |-> "Oldest",        value |-> "ReviewDateTime:asc"],
     [label |-> "Highest Rated", value |-> "Rating:desc"],
     [label |-> "Lowest Rated",  value |-> "Rating:asc"] >>

SortKeys == { options[i].value : i \in DOMAIN options }

\* variant: another page size
initialStatePageOf20 ==
  [ sort       |-> "ReviewDateTime:desc",
    offset     |-> 0,
    limit      |-> 20,
    reviews    |-> Null,
    total      |-> 0,
    average    |-> 0,
    hasTotal   |-> FALSE,
    hasAverage |-> FALSE,
    showForm   |-> FALSE ]

initialState ==
  [ sort       |-> "ReviewDateTime:desc",
    offset     |-> 0,
    limit      |-> 10,
    reviews    |-> Null,
    total      |-> 0,
    average    |-> 0,
    hasTotal   |-> FALSE,
    hasAverage |-> FALSE,
    showForm   |-> FALSE ]

\* what a JavaScript function returns when no return statement is reached
Undefined == [undefined |-> TRUE]

----------------------------------------------------------------------------
(* The reducer *)

\* action.args.reviews || []
OrEmpty(v) == IF v = Null THEN Arr(<<>>) ELSE v

\* variant: the new state is built from initialState instead of state
SetNextPageFromInitial(s) == [initialState EXCEPT !.offset = s.offset + s.limit]

SetNextPage(s) == [s EXCEPT !.offset = s.offset + s.limit]

\* variant: the decrement is not clamped at zero
SetPrevPageNoClamp(s) == [s EXCEPT !.offset = s.offset - s.limit]

SetPrevPage(s) ==
  [s EXCEPT !.offset = IF s.offset - s.limit < 0 THEN 0 ELSE s.offset - s.limit]

ToggleReviewForm(s) == [s EXCEPT !.showForm = ~s.showForm]

\* variant: choosing a sort goes back to the first page
SetSelectedSortFirstPage(s, args) == [s EXCEPT !.sort = args.sort, !.offset = 0]

SetSelectedSort(s, args) == [s EXCEPT !.sort = args.sort]

\* variant: the payload is appended to the stored page
SetReviewsAppend(s, args) ==
  [s EXCEPT !.reviews = IF s.reviews = Null THEN OrEmpty(args.reviews)
                        ELSE Arr(s.reviews[1] \o OrEmpty(args.reviews)[1])]

\* variant: the payload is stored as received
SetReviewsAsReceived(s, args) == [s EXCEPT !.reviews = args.reviews]

SetReviews(s, args) == [s EXCEPT !.reviews = OrEmpty(args.reviews)]

SetTotal(s, args) == [s EXCEPT !.total = args.total, !.hasTotal = TRUE]

\* variant: the value is stored but not marked as loaded
SetAverageValueOnly(s, args) == [s EXCEPT !.average = args.average]

SetAverage(s, args) == [s EXCEPT !.average = args.average, !.hasAverage = TRUE]

\* a switch without default: no case matches, no return statement is reached
reducer(s, action) ==
  CASE action.type = "SET_NEXT_PAGE"      -> SetNextPage(s)
    [] action.type = "SET_PREV_PAGE"      -> SetPrevPage(s)
    [] action.type = "TOGGLE_REVIEW_FORM" -> ToggleReviewForm(s)
    [] action.type = "SET_SELECTED_SORT"  -> SetSelectedSort(s, action.args)
    [] action.type = "SET_REVIEWS"        -> SetReviews(s, action.args)
    [] action.type = "SET_TOTAL"          -> SetTotal(s, action.args)
    [] action.type = "SET_AVERAGE"        -> SetAverage(s, action.args)
    [] OTHER                              -> Undefined

----------------------------------------------------------------------------
(* Requests and the two effects *)

TotalReq(p) ==
  [query |-> "TotalReviewsByProductId", variables |-> [productId |-> p]]

AverageReq(p) ==
  [query |-> "AverageRatingByProductId", variables |-> [productId |-> p]]

ListReq(p, s) ==
  [query |-> "ReviewsByProductId",
   variables |-> [productId |-> p, offset |-> s.offset,
                  limit |-> s.limit, orderBy |-> s.sort]]

NoReq == [query |-> "", variables |-> [productId |-> NoProduct]]

\* useEffect(..., [client, productId]); run says whether React runs the effect
SummaryEffect(run, p) ==
  IF ~run \/ p = NoProduct THEN {}
  ELSE {TotalReq(p), AverageReq(p)}

\* useEffect(..., [client, productId, state.limit, state.offset, state.sort])
ListEffect(run, p, s) ==
  IF ~run \/ p = NoProduct THEN {}
  ELSE {ListReq(p, s)}

SummaryDeps(p) == <<p>>

\* variant: state.sort is missing from the dependency array
ListDepsNoSort(p, s) == <<p, s.limit, s.offset>>

ListDeps(p, s) == <<p, s.limit, s.offset, s.sort>>

\* the requests issued by the render that follows a change from (p, s) to (q, t)
Rerender(p, s, q, t) ==
  SummaryEffect(SummaryDeps(q) # SummaryDeps(p), q)
    \cup ListEffect(ListDeps(q, t) # ListDeps(p, s), q, t)

\* the requests issued by the first render
Mount(p, s) == SummaryEffect(TRUE, p) \cup ListEffect(TRUE, p, s)

----------------------------------------------------------------------------
(* What the rendered tree offers *)

\* variant: the Dropdown and the Pagination are rendered for an empty page too
ListShownWhenLoaded(s) == s.reviews # Null

\* the branch of the list region holding the Dropdown and the Pagination
ListShown(s) == s.reviews # Null /\ Len(s.reviews[1]) # 0

\* variant: the loading label only while neither value is loaded
SummaryRegionBothMissing(s) ==
  IF ~s.hasTotal /\ ~s.hasAverage THEN [kind |-> "loading"]
  ELSE IF s.total = 0 THEN [kind |-> "null"]
  ELSE [kind |-> "summary", average |-> s.average, total |-> s.total]

\* variant: zero values are rendered as well
SummaryRegionShowsZero(s) ==
  IF ~s.hasTotal \/ ~s.hasAverage THEN [kind |-> "loading"]
  ELSE [kind |-> "summary", average |-> s.average, total |-> s.total]

\* what div.review__rating holds: "Loading summary...", nothing, or the
\* stars, "<average> Average Rating" and "(<total> Reviews)"
SummaryRegion(s) ==
  IF ~s.hasTotal \/ ~s.hasAverage THEN [kind |-> "loading"]
  ELSE IF s.total = 0 THEN [kind |-> "null"]
  ELSE [kind |-> "summary", average |-> s.average, total |-> s.total]

\* variant: an empty page is treated like a page not loaded yet
ListRegionEmptyIsLoading(s) ==
  IF s.reviews = Null \/ Len(s.reviews[1]) = 0 THEN [kind |-> "loading"]
  ELSE [kind |-> "list",
        dropdown |-> s.sort,
        entries |-> s.reviews[1],
        pager |-> [currentItemFrom |-> s.offset + 1,
                   currentItemTo |-> s.offset + s.limit,
                   totalItems |-> s.total]]

\* what div.review__comments holds: "Loading reviews...", the Dropdown with
\* one entry per review and the Pagination, or "No reviews."
ListRegion(s) ==
  IF s.reviews = Null THEN [kind |-> "loading"]
  ELSE IF Len(s.reviews[1]) # 0
  THEN [kind |-> "list",
        dropdown |-> s.sort,
        entries |-> s.reviews[1],
        pager |-> [currentItemFrom |-> s.offset + 1,
                   currentItemTo |-> s.offset + s.limit,
                   totalItems |-> s.total]]
  ELSE [kind |-> "empty"]

----------------------------------------------------------------------------
(* getTimeAgo.  A Date is NaN or <<t>>, t the time value in seconds since   *)
(* the epoch (the milliseconds, which no field read here shows, are left    *)
(* out).  A timestamp string is the record of the fields it spells, or      *)
(* Malformed.                                                               *)

NaN == <<>>

Malformed == [malformed |-> TRUE]

\* days from 1970-01-01 to the civil date y-m-d (proleptic Gregorian)
DaysFromCivil(y, m, d) ==
  LET y1  == IF m <= 2 THEN y - 1 ELSE y
      era == y1 \div 400
      yoe == y1 - era * 400
      mp  == IF m > 2 THEN m - 3 ELSE m + 9
      doy == (153 * mp + 2) \div 5 + d - 1
      doe == yoe * 365 + yoe \div 4 - yoe \div 100 + doy
  IN  era * 146097 + doe - 719468

\* the civil date of day z after 1970-01-01
CivilFromDays(z) ==
  LET z1  == z + 719468
      era == z1 \div 146097
      doe == z1 - era * 146097
      yoe == (doe - doe \div 1460 + doe \div 36524 - doe \div 146096) \div 365
      doy == doe - (365 * yoe + yoe \div 4 - yoe \div 100)
      mp  == (5 * doy + 2) \div 153
      d   == doy - (153 * mp + 2) \div 5 + 1
      m   == IF mp < 10 THEN mp + 3 ELSE mp - 9
      y   == yoe + era * 400 + (IF m <= 2 THEN 1 ELSE 0)
  IN  [year |-> y, month |-> m, day |-> d]

\* new Date(time + ' UTC')
NewDate(time) ==
  IF time = Malformed THEN NaN
  ELSE << DaysFromCivil(time.year, time.month, time.day) * 86400
          + time.hours * 3600 + time.minutes * 60 + time.seconds >>

\* new Date(a.valueOf() - b.valueOf())
DateMinus(a, b) == IF a = NaN \/ b = NaN THEN NaN ELSE << a[1] - b[1] >>

getUTCMinutes(d) == IF d = NaN THEN NaN ELSE << ((d[1] % 86400) % 3600) \div 60 >>

getUTCHours(d) == IF d = NaN THEN NaN ELSE << (d[1] % 86400) \div 3600 >>

getUTCDate(d) == IF d = NaN THEN NaN ELSE << CivilFromDays(d[1] \div 86400).day >>

getUTCMonth(d) == IF d = NaN THEN NaN ELSE << CivilFromDays(d[1] \div 86400).month - 1 >>

getUTCFullYear(d) == IF d = NaN THEN NaN ELSE << CivilFromDays(d[1] \div 86400).year >>

\* x - n and x > n on numbers that may be NaN
Minus(x, n) == IF x = NaN THEN NaN ELSE << x[1] - n >>

Gt(x, n) == x # NaN /\ x[1] > n

\* `${x} ${unit} ago`
Ago(x, unit) == ToString(x[1]) \o " " \o unit \o " ago"

\* the five let bindings of getTimeAgo
Units(time, now) ==
  LET before == NewDate(time)
      diff   == DateMinus(now, before)
  IN  [ minutes |-> getUTCMinutes(diff),
        hours   |-> getUTCHours(diff),
        days    |-> Minus(getUTCDate(diff), 1),
        months  |-> getUTCMonth(diff),
        years   |-> Minus(getUTCFullYear(diff), 1970) ]

\* variant: the plural word whatever the count
getTimeAgoAlwaysPlural(time, now) ==
  LET u == Units(time, now)
  IN  IF Gt(u.years, 0) THEN Ago(u.years, "years")
      ELSE IF Gt(u.months, 0) THEN Ago(u.months, "months")
      ELSE IF Gt(u.days, 0) THEN Ago(u.days, "days")
      ELSE IF Gt(u.hours, 0) THEN Ago(u.hours, "hours")
      ELSE IF Gt(u.minutes, 0) THEN Ago(u.minutes, "minutes")
      ELSE "just now"

getTimeAgo(time, now) ==
  LET u == Units(time, now)
  IN  IF Gt(u.years, 0)
      THEN Ago(u.years, IF Gt(u.years, 1) THEN "years" ELSE "year")
      ELSE IF Gt(u.months, 0)
      THEN Ago(u.months, IF Gt(u.months, 1) THEN "months" ELSE "month")
      ELSE IF Gt(u.days, 0)
      THEN Ago(u.days, IF Gt(u.days, 1) THEN "days" ELSE "day")
      ELSE IF Gt(u.hours, 0)
      THEN Ago(u.hours, IF Gt(u.hours, 1) THEN "hours" ELSE "hour")
      ELSE IF Gt(u.minutes, 0)
      THEN Ago(u.minutes, IF Gt(u.minutes, 1) THEN "minutes" ELSE "minute")
      ELSE "just now"

\* no review entry is on screen
NoEntry == [time |-> Malformed, now |-> NaN, label |-> ""]

\* the label of an entry whose getTimeAgo call has not been made yet
NotRendered == ""

\* timestamps of reviews: up to MaxYearsBack years before 2020
Timestamps ==
  [ year    : (2020 - MaxYearsBack)..2020,
    month   : {1, 12},
    day     : {1, 31},
    hours   : {0, 2, 23},
    minutes : {0, 30, 59},
    seconds : {0, 30} ]

\* what new Date() gives when the entry is rendered
Clocks ==
  { NewDate([year |-> 2020, month |-> 1, day |-> 1,
             hours |-> 2, minutes |-> 0, seconds |-> 0]),
    NewDate([year |-> 2020, month |-> 12, day |-> 31,
             hours |-> 23, minutes |-> 59, seconds |-> 30]) }

----------------------------------------------------------------------------
(* Server responses *)

Page(n) == [i \in 1..n |-> i]

Totals == 0..MaxTotal
Averages == 0..MaxAverage
ReviewPayloads ==
  {Null, Arr(Page(0)), Arr(Page(initialState.limit))}
    \cup { Arr(Page(n)) : n \in 1..MaxShortPage }

\* the actions the .then callback of request r can dispatch
Responses(r) ==
  CASE r.query = "TotalReviewsByProductId" ->
         { [type |-> "SET_TOTAL", args |-> [total |-> t]] : t \in Totals }
    [] r.query = "AverageRatingByProductId" ->
         { [type |-> "SET_AVERAGE", args |-> [average |-> a]] : a \in Averages }
    [] r.query = "ReviewsByProductId" ->
         { [type |-> "SET_REVIEWS", args |-> [reviews |-> v]] : v \in ReviewPayloads }

----------------------------------------------------------------------------
(* Steps *)

NoAction == [type |-> "NONE"]

\* how many unsettled promises in bag b belong to list requests
ListInFlight(b) ==
  BagCardinality([r \in {x \in DOMAIN b : x.query = "ReviewsByProductId"} |-> b[r]])

\* the history record of a step
Step(kind, action, req) ==
  [kind |-> kind, action |-> action, req |-> req,
   follows |-> IF req.query = "ReviewsByProductId"
                  /\ last.req.query = "ReviewsByProductId"
               THEN last.req ELSE NoReq]

\* the product the component is first rendered with: none, or a first product
FirstProducts == {NoProduct, "P1"}

Init ==
  /\ productId \in FirstProducts
  /\ state = initialState
  /\ issued = Mount(productId, state)
  /\ inflight = SetToBag(issued)
  /\ last = [kind |-> "mount", action |-> NoAction, req |-> NoReq, follows |-> NoReq]
  /\ roundTrip = Null
  /\ changes = 0
  /\ entry = NoEntry

\* dispatch(action) followed by the render and its effects
Dispatch(action) ==
  /\ state' = reducer(state, action)
  /\ issued' = Rerender(productId, state, productId, state')
  /\ UNCHANGED productId

\* a user event handler dispatching action
UserEvent(action) ==
  /\ Dispatch(action)
  /\ inflight' = inflight (+) SetToBag(issued')
  /\ ListInFlight(inflight') <= MaxListInFlight
  /\ last' = Step("user", action, NoReq)
  /\ UNCHANGED <<changes, entry>>

NextPage ==
  /\ ListShown(state)
  /\ state.offset + state.limit <= MaxPage * state.limit
  /\ UserEvent([type |-> "SET_NEXT_PAGE"])
  /\ roundTrip' = IF last.action.type = "SET_PREV_PAGE" THEN roundTrip ELSE Null

\* variant: previous page can be dispatched whatever the list region shows
PrevPageAlways ==
  /\ UserEvent([type |-> "SET_PREV_PAGE"])
  /\ roundTrip' = Arr(state)

PrevPage ==
  /\ ListShown(state)
  /\ UserEvent([type |-> "SET_PREV_PAGE"])
  /\ roundTrip' = Arr(state)

SelectSort ==
  /\ ListShown(state)
  /\ \E i \in DOMAIN options :
       /\ i <= MaxSortOption
       /\ UserEvent([type |-> "SET_SELECTED_SORT", args |-> [sort |-> options[i].value]])
  /\ roundTrip' = Null

ToggleForm ==
  /\ UserEvent([type |-> "TOGGLE_REVIEW_FORM"])
  /\ roundTrip' = Null

\* variant: the response to a superseded list request is discarded
ResolveCurrentOnly ==
  \E r \in BagToSet(inflight) : \E action \in Responses(r) :
    /\ IF r.query = "ReviewsByProductId" /\ r # ListReq(productId, state)
       THEN state' = state /\ issued' = {} /\ UNCHANGED productId
       ELSE Dispatch(action)
    /\ inflight' = (inflight (-) SetToBag({r})) (+) SetToBag(issued')
    /\ last' = Step("response", action, r)
    /\ roundTrip' = Null
    /\ UNCHANGED <<changes, entry>>

\* the promise of request r is fulfilled and its .then callback dispatches
Resolve ==
  \E r \in BagToSet(inflight) : \E action \in Responses(r) :
    /\ Dispatch(action)
    /\ inflight' = (inflight (-) SetToBag({r})) (+) SetToBag(issued')
    /\ last' = Step("response", action, r)
    /\ roundTrip' = Null
    /\ UNCHANGED <<changes, entry>>

\* the promise of request r is rejected: no handler is attached
Reject ==
  \E r \in BagToSet(inflight) :
    /\ inflight' = inflight (-) SetToBag({r})
    /\ issued' = {}
    /\ last' = Step("reject", NoAction, NoReq)
    /\ roundTrip' = Null
    /\ UNCHANGED <<productId, state, changes, entry>>

\* the ProductContext provider supplies another product (or none)
ContextChange ==
  \E p \in (Products \cup {NoProduct}) \ {productId} :
    /\ changes < MaxContextChanges
    /\ changes' = changes + 1
    /\ productId' = p
    /\ issued' = Rerender(productId, state, p, state)
    /\ inflight' = inflight (+) SetToBag(issued')
    /\ ListInFlight(inflight') <= MaxListInFlight
    /\ last' = Step("context", NoAction, NoReq)
    /\ roundTrip' = Null
    /\ UNCHANGED <<state, entry>>

Next ==
  \/ NextPage
  \/ PrevPage
  \/ SelectSort
  \/ ToggleForm
  \/ Resolve
  \/ Reject
  \/ ContextChange

Spec == Init /\ [][Next]_vars

\* the steps of a run in which no request is rejected
NextResolved ==
  \/ NextPage
  \/ PrevPage
  \/ SelectSort
  \/ ToggleForm
  \/ Resolve
  \/ ContextChange

\* the promise of a request of query q is fulfilled
ResolveQuery(q) == Resolve /\ last'.req.query = q

\* every request is eventually answered: while requests of one of the three
\* queries are in flight, one of them is eventually resolved
LiveSpec ==
  /\ Init
  /\ [][NextResolved]_vars
  /\ \A q \in {"TotalReviewsByProductId", "AverageRatingByProductId",
                "ReviewsByProductId"} : WF_vars(ResolveQuery(q))

\* one review entry with timestamp and clock drawn from the bounded sets,
\* before its "Submitted ..." item is rendered
TimeInit ==
  /\ productId = NoProduct
  /\ state = initialState
  /\ issued = Mount(productId, state)
  /\ inflight = SetToBag(issued)
  /\ last = [kind |-> "mount", action |-> NoAction, req |-> NoReq, follows |-> NoReq]
  /\ roundTrip = Null
  /\ changes = 0
  /\ entry \in [time : Timestamps \cup {Malformed}, now : Clocks, label : {NotRendered}]

\* {getTimeAgo(review.reviewDateTime)}
RenderEntry ==
  /\ entry.label = NotRendered
  /\ entry' = [entry EXCEPT !.label = getTimeAgo(entry.time, entry.now)]
  /\ UNCHANGED viewVars

TimeNext == RenderEntry

TimeSpec == TimeInit /\ [][TimeNext]_vars

TypeOK ==
  /\ productId \in Products \cup {NoProduct}
  /\ state.offset \in Int
  /\ ListInFlight(inflight) <= MaxListInFlight

----------------------------------------------------------------------------
(* Properties *)

Max(a, b) == IF a >= b THEN a ELSE b

IsList(r) == r.query = "ReviewsByProductId"

PREV == [type |-> "SET_PREV_PAGE"]
NEXT == [type |-> "SET_NEXT_PAGE"]

\* C1: in every reachable state offset >= 0; SET_PREV_PAGE yields
\* offset = max(0, offset - limit), both applied to the current state and on
\* the previous-page steps actually taken.
C1_OffsetNeverNegative ==
  /\ state.offset >= 0
  /\ reducer(state, PREV).offset = Max(0, state.offset - state.limit)
  /\ (last.action = PREV /\ roundTrip # Null) =>
       state.offset = Max(0, roundTrip[1].offset - roundTrip[1].limit)

\* previous page was clicked on the first page and the offset was clamped
C1_PrevAtFirstPage ==
  /\ last.action = PREV
  /\ roundTrip # Null
  /\ roundTrip[1].offset - roundTrip[1].limit < 0
  /\ state.offset = 0

\* C2: every response to a list request is stored when it resolves, whether
\* or not the request is still the current one: the page stored is that of
\* the response that resolved last.
C2_LastResponseWins ==
  [][ (last'.kind = "response" /\ IsList(last'.req)) =>
        state'.reviews = OrEmpty(last'.action.args.reviews) ]_vars

\* nothing is in flight, the response to the current list request resolved
\* first and the response to an earlier request of the same product, for
\* another offset or sort, resolved after it and is the page stored
C2_StalePageAtRest ==
  /\ inflight = EmptyBag
  /\ last.kind = "response"
  /\ IsList(last.req)
  /\ last.follows = ListReq(productId, state)
  /\ last.req.variables.productId = productId
  /\ \/ last.req.variables.offset # state.offset
     \/ last.req.variables.orderBy # state.sort
  /\ last.action.args.reviews # Null
  /\ state.reviews = last.action.args.reviews

UnrecognizedActions ==
  { [type |-> "RESET"], [type |-> "SET_LIMIT", args |-> [limit |-> 5]] }

\* C3: the reducer applied to an action of an unrecognized type returns the
\* state it was given.
C3_UnrecognizedIsNoOp ==
  \A a \in UnrecognizedActions : reducer(state, a) = state

\* C4: a step issues the list request of the new product, offset, limit and
\* sort exactly when product, offset or sort changed (and a product is
\* present); it issues the total and average requests exactly when the
\* product changed (and is present); a user event issues no total or average
\* request; a step that changes none of the three issues nothing; what is
\* issued is in flight.
C4_FetchOnDependencyChange ==
  [][ LET listChanged == \/ productId' # productId
                         \/ state'.offset # state.offset
                         \/ state'.sort # state.sort
      IN
      /\ { r \in issued' : IsList(r) } =
           IF listChanged /\ productId' # NoProduct
           THEN { [query |-> "ReviewsByProductId",
                   variables |-> [productId |-> productId',
                                  offset |-> state'.offset,
                                  limit |-> state'.limit,
                                  orderBy |-> state'.sort]] }
           ELSE {}
      /\ { r \in issued' : ~IsList(r) } =
           IF productId' # productId /\ productId' # NoProduct
           THEN { TotalReq(productId'), AverageReq(productId') }
           ELSE {}
      /\ last'.kind = "user" => \A r \in issued' : IsList(r)
      /\ ~listChanged => issued' = {}
      /\ \A r \in issued' : BagIn(r, inflight') ]_vars

\* a sort other than the current one was chosen and exactly the list request
\* for it was issued
C4_SortRefetch ==
  /\ last.action.type = "SET_SELECTED_SORT"
  /\ productId # NoProduct
  /\ state.sort # initialState.sort
  /\ issued = {ListReq(productId, state)}

\* C5: after a change of product identity the view state is the initial
\* state.
C5_FreshStatePerProduct ==
  last.kind = "context" => state = initialState

\* C6: while product identity is absent no request is issued, no SET_TOTAL,
\* SET_AVERAGE or SET_REVIEWS is dispatched, and total, average and reviews
\* stay unloaded.
C6_AbsentProductNothingLoaded ==
  [][ (productId = NoProduct /\ productId' = NoProduct) =>
        /\ issued' = {}
        /\ last'.action.type \notin {"SET_TOTAL", "SET_AVERAGE", "SET_REVIEWS"}
        /\ ~state.hasTotal => ~state'.hasTotal
        /\ ~state.hasAverage => ~state'.hasAverage
        /\ state.reviews = Null => state'.reviews = Null ]_vars

Queries ==
  {"TotalReviewsByProductId", "AverageRatingByProductId", "ReviewsByProductId"}

\* the slice of s that the response to query q fills is unloaded
Unloaded(s, q) ==
  CASE q = "TotalReviewsByProductId"  -> ~s.hasTotal
    [] q = "AverageRatingByProductId" -> ~s.hasAverage
    [] q = "ReviewsByProductId"       -> s.reviews = Null

\* the request for query q that the effects issued for the current dependencies
CurrentReq(q) ==
  CASE q = "TotalReviewsByProductId"  -> TotalReq(productId)
    [] q = "AverageRatingByProductId" -> AverageReq(productId)
    [] q = "ReviewsByProductId"       -> ListReq(productId, state)

\* the fetch of query q for the current dependencies was rejected: a product
\* is present, the slice is unloaded and the request is no longer in flight
Failed(q) ==
  /\ productId # NoProduct
  /\ Unloaded(state, q)
  /\ ~BagIn(CurrentReq(q), inflight)

\* C7: a rejection leaves the view state unchanged and issues no request, and
\* a slice whose fetch was rejected stays unloaded as long as the dependencies
\* of its effect do not change.
C7_RejectedStaysUnloaded ==
  [][ /\ last'.kind = "reject" => (state' = state /\ issued' = {})
      /\ \A q \in Queries :
           ( /\ Failed(q)
             /\ productId' = productId
             /\ state'.offset = state.offset
             /\ state'.sort = state.sort ) => Unloaded(state', q) ]_vars

\* C8: from a state with offset >= limit, SET_PREV_PAGE followed by
\* SET_NEXT_PAGE returns the original state, both applied to the current state
\* and on the previous-page / next-page steps actually taken in a row.
C8_NextUndoesPrev ==
  /\ state.offset >= state.limit => reducer(reducer(state, PREV), NEXT) = state
  /\ ( /\ last.action = NEXT
       /\ roundTrip # Null
       /\ roundTrip[1].offset >= roundTrip[1].limit ) => state = roundTrip[1]

\* previous page then next page were clicked from an offset >= limit
C8_WentBackAndForth ==
  /\ last.action = NEXT
  /\ roundTrip # Null
  /\ roundTrip[1].offset >= roundTrip[1].limit

\* C9: SET_SELECTED_SORT sets sort to the given key and changes no other
\* field of the view state, offset included.
C9_SortKeepsOffset ==
  [][ last'.action.type = "SET_SELECTED_SORT" =>
        state' = [state EXCEPT !.sort = last'.action.args.sort] ]_vars

\* another sort was chosen on a later page and the offset is still that page's
C9_SortedOnLaterPage ==
  /\ last.action.type = "SET_SELECTED_SORT"
  /\ state.sort = last.action.args.sort
  /\ state.sort # initialState.sort
  /\ state.offset > 0

\* C10: SET_TOTAL changes only total and hasTotal, SET_AVERAGE only average
\* and hasAverage, SET_REVIEWS only reviews, which becomes the payload (the
\* empty page when the payload is absent), not a merge with the stored page.
C10_ResponseChangesOwnSlice ==
  [][ /\ last'.action.type = "SET_TOTAL" =>
           state' = [state EXCEPT !.total = last'.action.args.total,
                                  !.hasTotal = TRUE]
      /\ last'.action.type = "SET_AVERAGE" =>
           state' = [state EXCEPT !.average = last'.action.args.average,
                                  !.hasAverage = TRUE]
      /\ last'.action.type = "SET_REVIEWS" =>
           state' = [state EXCEPT !.reviews =
                       IF last'.action.args.reviews = Null THEN Arr(<<>>)
                       ELSE last'.action.args.reviews] ]_vars

\* a list response stored a partial page while the shopper is on a later
\* page, with total and average loaded and non-zero, another sort chosen and
\* the form open: every other slice holds a value of its own to keep
C10_PageReplaced ==
  /\ last.action.type = "SET_REVIEWS"
  /\ state.offset > 0
  /\ state.reviews # Null
  /\ Len(state.reviews[1]) \in 1..MaxShortPage
  /\ state.hasTotal /\ state.total > 0
  /\ state.hasAverage /\ state.average > 0
  /\ state.sort # initialState.sort
  /\ state.showForm

C12_SummaryLoadingUntilBoth ==
  (~state.hasTotal \/ ~state.hasAverage) =>
    SummaryRegion(state) = [kind |-> "loading"]

\* the total is loaded and non-zero, the average is not, the list is populated
C12_OnlyTotalLoaded ==
  /\ state.hasTotal
  /\ state.total # 0
  /\ ~state.hasAverage
  /\ ListRegion(state).kind = "list"
  /\ SummaryRegion(state).kind = "loading"

\* C13: once total and average are loaded the summary region renders nothing
\* when total is 0, and the average and the count exactly when total is not 0.
C13_SummaryHiddenWhenNoReviews ==
  (state.hasTotal /\ state.hasAverage) =>
    /\ state.total = 0 => SummaryRegion(state) = [kind |-> "null"]
    /\ state.total # 0 =>
         SummaryRegion(state) =
           [kind |-> "summary", average |-> state.average, total |-> state.total]

\* both values are loaded, the total is 0 and the average is not
C13_LoadedWithoutReviews ==
  /\ state.hasTotal
  /\ state.hasAverage
  /\ state.total = 0
  /\ state.average # 0
  /\ SummaryRegion(state).kind = "null"

\* C14: the list region shows the loading label iff the page is null, "No
\* reviews." iff it is loaded and empty, and the dropdown, the entries and the
\* pager iff it is loaded and non-empty; the events of the dropdown and of the
\* pager are dispatched only in the third mode.
C14_ListRegionModes ==
  /\ ListRegion(state).kind \in {"loading", "empty", "list"}
  /\ ListRegion(state).kind = "loading" <=> state.reviews = Null
  /\ ListRegion(state).kind = "empty" <=>
       (state.reviews # Null /\ state.reviews[1] = <<>>)
  /\ ListRegion(state).kind = "list" <=>
       (state.reviews # Null /\ state.reviews[1] # <<>>)
  /\ ListRegion(state).kind = "list" =>
       /\ ListRegion(state).entries = state.reviews[1]
       /\ ListRegion(state).dropdown = state.sort
  /\ ListShown(state) <=> ListRegion(state).kind = "list"

\* a list request resolved with an empty sequence: "No reviews.", no pager
C14_ResolvedEmpty ==
  /\ last.action.type = "SET_REVIEWS"
  /\ last.action.args.reviews = Arr(<<>>)
  /\ ListRegion(state) = [kind |-> "empty"]
  /\ ~ListShown(state)

\* C15: the first state has sort 'ReviewDateTime:desc', offset 0, limit 10,
\* reviews null, total and average unloaded and the form hidden; limit is 10
\* in every reachable state.
C15_InitialStateAndFixedLimit ==
  /\ state.limit = 10
  /\ last.kind = "mount" =>
       /\ state.sort = "ReviewDateTime:desc"
       /\ state.offset = 0
       /\ state.reviews = Null
       /\ ~state.hasTotal
       /\ ~state.hasAverage
       /\ ~state.showForm
       /\ SummaryRegion(state).kind = "loading"
       /\ ListRegion(state).kind = "loading"

\* the form is open, another sort is chosen, the three values are loaded and
\* next page has just been dispatched: limit is still 10
C15_LimitAfterEveryAction ==
  /\ state.limit = 10
  /\ state.showForm
  /\ state.sort # initialState.sort
  /\ state.offset > 0
  /\ state.hasTotal
  /\ state.hasAverage
  /\ state.reviews # Null
  /\ last.action = NEXT

\* C16 as stated, for well-formed timestamps: the label names the first
\* non-zero unit in the order years, months, days, hours, minutes, with the
\* singular word for 1 and the plural word above 1, and it is "just now"
\* exactly when the five units are zero.
C16_LargestNonZeroUnit ==
  (entry.label # NotRendered /\ entry.time # Malformed) =>
    LET u       == Units(entry.time, entry.now)
        units   == << u.years, u.months, u.days, u.hours, u.minutes >>
        names   == << "year", "month", "day", "hour", "minute" >>
        nonzero == {i \in 1..5 : units[i] # <<0>>}
    IN  /\ entry.label = "just now" <=> nonzero = {}
        /\ nonzero # {} =>
             LET i == CHOOSE i \in nonzero : \A j \in nonzero : i <= j
             IN  \/ units[i] = <<1>> /\ entry.label = Ago(units[i], names[i])
                 \/ Gt(units[i], 1) /\ entry.label = Ago(units[i], names[i] \o "s")
                 \/ /\ units[i] # NaN
                    /\ units[i][1] < 0
                    /\ entry.label \in {Ago(units[i], names[i]),
                                        Ago(units[i], names[i] \o "s")}

\* now = 2020-01-01T02:00:00Z, timestamp 2020-01-01T00:30:00, label rendered
C17_NinetyMinutesRendered ==
  /\ entry.time = [year |-> 2020, month |-> 1, day |-> 1,
                   hours |-> 0, minutes |-> 30, seconds |-> 0]
  /\ entry.now = NewDate([year |-> 2020, month |-> 1, day |-> 1,
                          hours |-> 2, minutes |-> 0, seconds |-> 0])
  /\ entry.label # NotRendered

\* C17 as stated: 90 minutes after the timestamp the label is "1 hours ago".
C17_NinetyMinutesPluralHours ==
  C17_NinetyMinutesRendered => entry.label = "1 hours ago"

\* C17 amended: 90 minutes after the timestamp the label is "1 hour ago".
C17_NinetyMinutesOneHour ==
  C17_NinetyMinutesRendered => entry.label = "1 hour ago"

\* C18: no step returns a loaded slice (total, average, review page) to
\* unloaded, and a step that re-triggers a fetch (a user event or a context
\* change that issues requests) leaves the stored data and what the two
\* regions show of it as they were: no region goes back to its loading label.
C18_LoadedStaysLoaded ==
  [][ /\ \A q \in Queries : ~Unloaded(state, q) => ~Unloaded(state', q)
      /\ SummaryRegion(state).kind # "loading" =>
           SummaryRegion(state').kind # "loading"
      /\ ListRegion(state).kind # "loading" => ListRegion(state').kind # "loading"
      /\ (last'.kind \in {"user", "context"} /\ issued' # {}) =>
           /\ state'.reviews = state.reviews
           /\ SummaryRegion(state') = SummaryRegion(state)
           /\ ListRegion(state').kind = ListRegion(state).kind ]_vars

\* a list response with an absent payload arrived right after another list
\* response had loaded the page: the page is empty, not null
C18_AbsentPayloadAfterLoad ==
  /\ last.action.type = "SET_REVIEWS"
  /\ last.action.args.reviews = Null
  /\ last.follows # NoReq
  /\ state.reviews = Arr(<<>>)
  /\ ListRegion(state).kind = "empty"

\* the stored page is loaded and empty and no list request is in flight
EmptyAtRest ==
  /\ state.reviews = Arr(<<>>)
  /\ ListInFlight(inflight) = 0

\* C19: from a state whose page is loaded and empty with no list request in
\* flight, the only user event dispatched is toggle form, offset and sort do
\* not change, and the state stays of that kind until the product changes.
C19_EmptyPageIsFinal ==
  [][ EmptyAtRest =>
        /\ last'.kind = "user" => last'.action.type = "TOGGLE_REVIEW_FORM"
        /\ state'.offset = state.offset
        /\ state'.sort = state.sort
        /\ productId' = productId => EmptyAtRest' ]_vars

\* the shopper paged past the last review, got an empty page and could only
\* toggle the form
C19_PagedPastTheEnd ==
  /\ EmptyAtRest
  /\ state.offset > 0
  /\ productId # NoProduct
  /\ last.action.type = "TOGGLE_REVIEW_FORM"

\* total, average and the review page are loaded
AllLoaded == \A q \in Queries : ~Unloaded(state, q)

\* C20: when a product is present and every request is eventually answered,
\* total, average and the review page all get loaded, and from then on they
\* stay loaded and neither region shows its loading label.
C20_EventuallyAllLoaded ==
  (productId # NoProduct) ~>
    [](/\ AllLoaded
       /\ SummaryRegion(state).kind # "loading"
       /\ ListRegion(state).kind # "loading")

\* the three slices are loaded and the response that came last was the total,
\* after the review page and the average
C20_TotalCameLast ==
  /\ productId # NoProduct
  /\ AllLoaded
  /\ last.action.type = "SET_TOTAL"
  /\ inflight = EmptyBag

====
